---- MODULE Spec2Model ----
(***************************************************************************)
(* Model of the multi-tenant code conversion server                        *)
(* (am2308/CodeConversionMCPServer).                                       *)
(*                                                                         *)
(* The state is the job ledger (ConversionJob rows), the user table, the   *)
(* remote GitHub repository (branch refs, commit objects, pull requests)   *)
(* and, for every dispatched job, the position and the local variables of  *)
(* its background task process_conversion_job / process_repository /       *)
(* commit_files.  Every call to GitHub or to the LLM is one step that      *)
(* either returns or raises.  Paths and extensions are sequences of        *)
(* one-character strings, so that endswith and slicing are computed.       *)
(***************************************************************************)
EXTENDS Integers, Sequences, FiniteSets, TLC

\* ------------------------------------------------------------------ bounds
MaxJobs == 2          \* jobs accepted by convert_repository
MaxClock == 1         \* seconds the wall clock may advance
MaxWriterMoves == 1   \* ref moves by writers other than the jobs
MaxRunning == 1       \* background tasks in flight at once (size of the worker pool)

\* ------------------------------------------------------------ text helpers
None == <<"None">>

Range(s) == {s[i] : i \in 1..Len(s)}

\* as EndsWith, with the test "suf in s" instead of s.endswith(suf)
EndsWith_anywhere(s, suf) ==
    \E i \in 1..(Len(s) - Len(suf) + 1) : SubSeq(s, i, i + Len(suf) - 1) = suf

\* str.endswith
EndsWith(s, suf) ==
    /\ Len(s) >= Len(suf)
    /\ SubSeq(s, Len(s) - Len(suf) + 1, Len(s)) = suf

\* as DropLast, with the slice one character short: the dot is kept
DropLast_keeps_dot(s, n) == SubSeq(s, 1, Len(s) - n + 1)

\* s[:-n]
DropLast(s, n) == SubSeq(s, 1, Len(s) - n)

\* Settings.supported_extensions, in the order of the dict literal
supported_extensions ==
    << [ext |-> <<".","s","h">>,                 lang |-> "shell"],
       [ext |-> <<".","b","a","s","h">>,         lang |-> "shell"],
       [ext |-> <<".","z","s","h">>,             lang |-> "shell"],
       [ext |-> <<".","f","i","s","h">>,         lang |-> "shell"],
       [ext |-> <<".","p","s","1">>,             lang |-> "powershell"],
       [ext |-> <<".","p","s","m","1">>,         lang |-> "powershell"],
       [ext |-> <<".","p","s","d","1">>,         lang |-> "powershell"],
       [ext |-> <<".","t","s">>,                 lang |-> "typescript"],
       [ext |-> <<".","t","s","x">>,             lang |-> "typescript"],
       [ext |-> <<".","j","s">>,                 lang |-> "javascript"],
       [ext |-> <<".","j","s","x">>,             lang |-> "javascript"],
       [ext |-> <<".","g","o">>,                 lang |-> "go"],
       [ext |-> <<".","r","s">>,                 lang |-> "rust"],
       [ext |-> <<".","r","b">>,                 lang |-> "ruby"],
       [ext |-> <<".","p","h","p">>,             lang |-> "php"],
       [ext |-> <<".","j","a","v","a">>,         lang |-> "java"],
       [ext |-> <<".","s","c","a","l","a">>,     lang |-> "scala"],
       [ext |-> <<".","k","t">>,                 lang |-> "kotlin"],
       [ext |-> <<".","s","w","i","f","t">>,     lang |-> "swift"],
       [ext |-> <<".","c","s">>,                 lang |-> "csharp"],
       [ext |-> <<".","c","p","p">>,             lang |-> "cpp"],
       [ext |-> <<".","c","c">>,                 lang |-> "cpp"],
       [ext |-> <<".","c","x","x">>,             lang |-> "cpp"],
       [ext |-> <<".","c">>,                     lang |-> "c"],
       [ext |-> <<".","p","l">>,                 lang |-> "perl"],
       [ext |-> <<".","r">>,                     lang |-> "r"],
       [ext |-> <<".","R">>,                     lang |-> "r"],
       [ext |-> <<".","l","u","a">>,             lang |-> "lua"],
       [ext |-> <<".","d","a","r","t">>,         lang |-> "dart"],
       [ext |-> <<".","g","r","o","o","v","y">>, lang |-> "groovy"],
       [ext |-> <<".","g","r","a","d","l","e">>, lang |-> "groovy"] >>

\* the target_extensions table of _get_target_path, with its .py default
target_extensions(target_language) ==
    CASE target_language = "python"     -> <<".","p","y">>
      [] target_language = "javascript" -> <<".","j","s">>
      [] target_language = "typescript" -> <<".","t","s">>
      [] target_language = "go"         -> <<".","g","o">>
      [] target_language = "rust"       -> <<".","r","s">>
      [] target_language = "java"       -> <<".","j","a","v","a">>
      [] OTHER                          -> <<".","p","y">>

\* index of the first entry of exts (from position i on) that path ends with, or 0
RECURSIVE FirstMatch(_, _, _)
FirstMatch(exts, path, i) ==
    IF i > Len(exts) THEN 0
    ELSE IF EndsWith(path, exts[i].ext) THEN i
    ELSE FirstMatch(exts, path, i + 1)

\* ConversionService._get_target_path
_get_target_path(original_path, target_language) ==
    LET target_ext == target_extensions(target_language)
        k == FirstMatch(supported_extensions, original_path, 1)
    IN  IF k # 0
        THEN DropLast(original_path, Len(supported_extensions[k].ext)) \o target_ext
        ELSE original_path \o target_ext

\* ------------------------------------------------- the remote repository
\* ContentFile objects returned by repo.get_contents
File(name, path) == [type |-> "file", name |-> name, path |-> path]
Dir(name, path)  == [type |-> "dir",  name |-> name, path |-> path]

README  == <<"R","E","A","D","M","E">>
a_sh    == <<"a",".","s","h">>
a_bash  == <<"a",".","b","a","s","h">>
b_ts    == <<"b",".","t","s">>
d_dir   == <<"d">>
d_a_sh  == <<"d","/","a",".","s","h">>

c_bash  == <<"c",".","b","a","s","h">>
txt     == <<".","t","x","t">>

\* the repositories a job may be pointed at (the content of the source branch)
Layouts == 1..3

\* more repositories, for the study of discovery alone: one per supported
\* extension (a file at the root, one at depth 2, one at depth 3, and names
\* that hold the extension without ending with it), and one whose listing
\* alternates languages
Interleaved == Len(supported_extensions) + 4
Trees == 1..Interleaved

\* the extension repository l (4 .. Interleaved - 1) is about
ExtOf(l) == supported_extensions[l - 3].ext

\* repo.get_contents(path, ref=branch) on the source branch of repository l
get_contents(l, path) ==
    CASE l = 1 /\ path = <<>>  -> << File(README, README) >>
      [] l = 2 /\ path = <<>>  -> << File(a_sh, a_sh), File(a_bash, a_bash) >>
      [] l = 3 /\ path = <<>>  -> << Dir(d_dir, d_dir), File(b_ts, b_ts) >>
      [] l = 3 /\ path = d_dir -> << File(a_sh, d_a_sh) >>
      [] l > 3 /\ l < Interleaved /\ path = <<>> ->
             << Dir(d_dir, d_dir),
                File(<<"a">> \o ExtOf(l), <<"a">> \o ExtOf(l)),
                File(<<"a">> \o ExtOf(l) \o txt, <<"a">> \o ExtOf(l) \o txt) >>
      [] l > 3 /\ l < Interleaved /\ path = d_dir ->
             << Dir(<<"e">>, <<"d","/","e">>),
                File(ExtOf(l), <<"d","/">> \o ExtOf(l)) >>
      [] l > 3 /\ l < Interleaved /\ path = <<"d","/","e">> ->
             << File(<<"c">> \o ExtOf(l), <<"d","/","e","/","c">> \o ExtOf(l)),
                File(Tail(ExtOf(l)), <<"d","/","e","/">> \o Tail(ExtOf(l))) >>
      [] l = Interleaved /\ path = <<>> ->
             << File(a_sh, a_sh), File(b_ts, b_ts), File(c_bash, c_bash) >>
      [] OTHER                 -> << >>

\* the extensions find_convertible_files looks for (lines 50-59)
RECURSIVE FilterExtensions(_, _, _)
FilterExtensions(exts, source_languages, i) ==
    IF i > Len(exts) THEN << >>
    ELSE (IF exts[i].lang \in Range(source_languages) THEN << exts[i] >> ELSE << >>)
         \o FilterExtensions(exts, source_languages, i + 1)

wanted_extensions(source_languages) ==
    IF source_languages # None /\ source_languages # << >>
    THEN FilterExtensions(supported_extensions, source_languages, 1)
    ELSE supported_extensions

\* as Walk, without lines 68-70: a directory is skipped, not listed
RECURSIVE Walk_flat(_, _, _, _)
Walk_flat(l, exts, contents, found) ==
    IF contents = << >> THEN found
    ELSE LET file_content == Head(contents)
             k == FirstMatch(exts, file_content.name, 1)
         IN  IF file_content.type # "dir" /\ k # 0
             THEN Walk_flat(l, exts, Tail(contents),
                            Append(found, [path |-> file_content.path,
                                           name |-> file_content.name,
                                           language |-> exts[k].lang]))
             ELSE Walk_flat(l, exts, Tail(contents), found)

\* the while loop of find_convertible_files (lines 65-80): contents is the
\* work list, found the result so far
RECURSIVE Walk(_, _, _, _)
Walk(l, exts, contents, found) ==
    IF contents = << >> THEN found
    ELSE LET file_content == Head(contents)
             k == FirstMatch(exts, file_content.name, 1)
         IN  IF file_content.type = "dir"
             THEN Walk(l, exts, Tail(contents) \o get_contents(l, file_content.path), found)
             ELSE IF k # 0
             THEN Walk(l, exts, Tail(contents),
                       Append(found, [path |-> file_content.path,
                                      name |-> file_content.name,
                                      language |-> exts[k].lang]))
             ELSE Walk(l, exts, Tail(contents), found)

\* GitHubService.find_convertible_files
find_convertible_files(l, source_languages) ==
    Walk(l, wanted_extensions(source_languages), get_contents(l, << >>), << >>)

\* every file of the source branch, whatever its extension
RECURSIVE AllFiles(_, _)
AllFiles(l, contents) ==
    IF contents = << >> THEN {}
    ELSE LET e == Head(contents)
         IN  IF e.type = "dir"
             THEN AllFiles(l, Tail(contents) \o get_contents(l, e.path))
             ELSE {e.path} \cup AllFiles(l, Tail(contents))

\* a blob of the source branch, and a blob written by a conversion
SourceBlob(path) == <<"src", path, "">>
ConvertedBlob(original_path, target_language) == <<"conv", original_path, target_language>>

\* the tree of the tip of the source branch
SourceTree(l) == {<<p, SourceBlob(p)>> : p \in AllFiles(l, get_contents(l, << >>))}

\* --------------------------------------------------------------- requests
Users == {"u1", "u2"}

Main == <<"main">>

\* strftime("%Y%m%d-%H%M%S") has a resolution of one second: ts is the second
SynthesizedBranch(target_language, ts) == <<"convert-to-", target_language, ts>>

\* the bodies of POST /convert the model submits (ConversionRequest)
\* an Optional[List[str]] field of the body that is absent, or given
Absent == [given |-> FALSE]
Given(patterns) == [given |-> TRUE, patterns |-> patterns]

Requests ==
    { [branch |-> Main, target_branch |-> None,       target_language |-> "python",
       source_languages |-> None, include_patterns |-> Absent, exclude_patterns |-> Absent],
      [branch |-> Main, target_branch |-> <<"conv">>, target_language |-> "javascript",
       source_languages |-> <<"shell">>,
       include_patterns |-> Given(<< <<"*",".","s","h">>, <<"*",".","b","a","s","h">> >>),
       exclude_patterns |-> Given(<< <<"d","/","*">> >>)] }

BranchNames ==
    {Main} \cup {r.target_branch : r \in {q \in Requests : q.target_branch # None}}
           \cup {SynthesizedBranch(r.target_language, t) : r \in Requests, t \in 0..MaxClock}

\* ------------------------------------------------------------------ state
VARIABLES
    now,       \* the wall clock, in seconds
    layout,    \* which repository the jobs are pointed at
    users,     \* the users table: github_username, github_installation_id, github_token_encrypted
    jobs,      \* the conversion_jobs table, a sequence indexed by job id
    task,      \* per job: position and locals of its process_conversion_job task
    refs,      \* GitHub: branch name -> sha of its tip (0: no such ref)
    commits,   \* GitHub: commit objects, sha = index
    pulls,     \* GitHub: pull requests, number = index
    moves,     \* number of ref moves made by other writers
    called,    \* per job: the steps of process_repository taken so far, in order
    submitted, \* per job: the body of the POST /convert that created it
    input,     \* the arguments of the call under study (fn: which function or endpoint)
    output     \* what that call returned

vars == <<now, layout, users, jobs, task, refs, commits, pulls, moves, called, submitted,
          input, output>>

JobIds == 1..Len(jobs)

\* no call under study
NoCall == [fn |-> "None"]

\* The users table.  main.py line 426 reads user.github_installation_id and
\* migrate_db.py adds that column to the table, while the User class of
\* models/database.py (lines 15-26) does not declare it: an object of a class
\* that declares it has the attribute (mapped TRUE), an object of the class as
\* it stands has not.  u1 has linked an installation and stored a token, u2
\* has done neither.
UsersTable(mapped) ==
    [u \in Users |->
        LET row == IF u = "u1"
                   THEN [github_username |-> "gh1",
                         github_installation_id |-> "inst1", github_token_encrypted |-> "enc1"]
                   ELSE [github_username |-> "gh2",
                         github_installation_id |-> "",      github_token_encrypted |-> "None"]
        IN  IF mapped THEN row
            ELSE [github_username |-> row.github_username,
                  github_token_encrypted |-> row.github_token_encrypted]]

\* the locals of a task that has not run yet
NewTask ==
    [pc |-> "start", err |-> "None", escaped |-> FALSE, github_token |-> "None",
     files |-> << >>, idx |-> 1, outcomes |-> << >>,
     conversions |-> << >>, files_to_commit |-> << >>,
     current_sha |-> 0, tip_at_call |-> 0, blobs |-> << >>, new_tree |-> {},
     commit_sha |-> 0, pr_body |-> "None", pr_url |-> 0,
     \* history, not program state: discovery returned; this task created the branch
     discovered |-> FALSE, branch_created |-> FALSE]

\* the ledger and the remote repository before any request
InitServer ==
    /\ now = 0
    /\ layout \in Layouts
    /\ jobs = << >>
    /\ task = << >>
    \* the source branch has some history: commit 1, then commit 2 with the files
    /\ commits = << [parent |-> 0, tree |-> {}, message |-> << >>, author |-> 0],
                    [parent |-> 1, tree |-> SourceTree(layout), message |-> << >>, author |-> 0] >>
    /\ refs = [b \in BranchNames |-> IF b = Main THEN 2 ELSE 0]
    /\ pulls = << >>
    /\ moves = 0
    /\ called = << >>
    /\ submitted = << >>

Init ==
    /\ InitServer
    /\ users \in {UsersTable(TRUE), UsersTable(FALSE)}
    /\ input = NoCall
    /\ output = NoCall

\* the clock advances
Tick ==
    /\ now < MaxClock
    \* only convert_repository reads the clock, and only the time between two
    \* submissions matters: the first job is submitted in second 0
    /\ Len(jobs) >= 1
    /\ Len(jobs) < MaxJobs
    /\ now' = now + 1
    /\ UNCHANGED <<layout, users, input, output, jobs, task, refs, commits, pulls, moves, called, submitted>>

\* -------------------------------------------------- main.convert_repository
\* lines 213-217: the target branch of the job record
ResolveTargetBranch(target_branch, target_language, ts) ==
    IF target_branch = None THEN SynthesizedBranch(target_language, ts) ELSE target_branch

\* POST /convert by an authenticated user: the job row is created with status
\* pending and process_conversion_job is queued as a background task
convert_repository(current_user, request) ==
    /\ Len(jobs) < MaxJobs
    /\ jobs' = Append(jobs,
          [user_id |-> current_user,
           source_branch |-> request.branch,
           target_branch |-> ResolveTargetBranch(request.target_branch,
                                                 request.target_language, now),
           source_languages |-> request.source_languages,
           target_language |-> request.target_language,
           status |-> "pending", error_message |-> "None", pr_url |-> 0,
           files_processed |-> 0, files_converted |-> 0])
    /\ task' = Append(task, NewTask)
    /\ called' = Append(called, << >>)
    /\ submitted' = Append(submitted, request)
    /\ UNCHANGED <<now, layout, users, input, output, refs, commits, pulls, moves>>

\* ---------------------------------------------- main.process_conversion_job
\* as Raise, without the try/except of lines 411 and 465: the exception leaves the task
Raise_uncaught(j, message) ==
    task' = [task EXCEPT ![j].pc = "done", ![j].err = message, ![j].escaped = TRUE]

\* an exception raised inside the try block of process_conversion_job (or inside
\* process_repository, which logs and re-raises it): control goes to the handler
Raise(j, message) ==
    task' = [task EXCEPT ![j].pc = "except", ![j].err = message]

Goto(j, pc) == task' = [task EXCEPT ![j].pc = pc]

\* the task of job j takes the steps named in names, in that order
Call(j, names) == called' = [called EXCEPT ![j] = @ \o names]

\* process_conversion_job returns: its locals are gone; the model keeps what the
\* run found and how it ended
Return(j) ==
    task' = [task EXCEPT ![j] =
               [NewTask EXCEPT !.pc = "done", !.err = task[j].err,
                               !.files = task[j].files, !.outcomes = task[j].outcomes,
                               !.pr_url = task[j].pr_url,
                               !.discovered = task[j].discovered,
                               !.branch_created = task[j].branch_created]]

\* lines 413-423: the job and the user are loaded and the job is marked processing
Running == {j \in JobIds : task[j].pc \notin {"start", "done"}}

StartJob(j) ==
    /\ task[j].pc = "start"
    /\ Cardinality(Running) < MaxRunning
    /\ IF jobs[j].user_id \notin DOMAIN users
       THEN \* line 416: logged, the task returns
            /\ Return(j)
            /\ UNCHANGED jobs
       ELSE /\ jobs' = [jobs EXCEPT ![j].status = "processing"]
            /\ Goto(j, "credentials")
    /\ UNCHANGED <<now, layout, users, input, output, refs, commits, pulls, moves, called, submitted>>

\* AuthService.get_user_github_token: the stored token, or ValueError
get_user_github_token(user) ==
    IF user.github_token_encrypted = "None"
    THEN [ok |-> FALSE, value |-> "User has no GitHub token configured"]
    ELSE [ok |-> TRUE,  value |-> "stored_token"]

\* as resolve_github_token, with the stored token asked for before the installation
resolve_github_token_stored_first(user, installation_ok) ==
    IF "github_installation_id" \notin DOMAIN user
    THEN [ok |-> FALSE, value |-> "'User' object has no attribute 'github_installation_id'"]
    ELSE IF get_user_github_token(user).ok
    THEN get_user_github_token(user)
    ELSE IF user.github_installation_id # "" /\ installation_ok
    THEN [ok |-> TRUE, value |-> "installation_token"]
    ELSE get_user_github_token(user)

\* lines 425-435: installation_ok is whether get_installation_token returned
resolve_github_token(user, installation_ok) ==
    IF "github_installation_id" \notin DOMAIN user
    THEN \* line 426: AttributeError
         [ok |-> FALSE, value |-> "'User' object has no attribute 'github_installation_id'"]
    ELSE IF user.github_installation_id # ""
    THEN IF installation_ok
         THEN [ok |-> TRUE, value |-> "installation_token"]
         ELSE get_user_github_token(user)
    ELSE get_user_github_token(user)

ResolveCredentials(j) ==
    /\ task[j].pc = "credentials"
    /\ \E installation_ok \in BOOLEAN :
         LET r == resolve_github_token(users[jobs[j].user_id], installation_ok)
         IN  IF r.ok
             THEN task' = [task EXCEPT ![j].pc = "get_repository", ![j].github_token = r.value]
             ELSE Raise(j, r.value)
    /\ UNCHANGED <<now, layout, users, input, output, jobs, refs, commits, pulls, moves, called, submitted>>

\* ------------------------------------ ConversionService.process_repository
\* as GetRepository, with the target branch created before the repository is checked
GetRepository_after_branch(j) ==
    /\ task[j].pc = "get_repository"
    /\ \/ /\ Goto(j, "discover")
          /\ UNCHANGED refs
       \/ /\ refs' = [refs EXCEPT ![jobs[j].target_branch] =
                          IF @ = 0 THEN refs[jobs[j].source_branch] ELSE @]
          /\ task' = [task EXCEPT ![j].pc = "except", ![j].err = "get_repository failed",
                                  ![j].branch_created = (refs[jobs[j].target_branch] = 0)]
    /\ Call(j, <<"get_repository">>)
    /\ UNCHANGED <<now, layout, users, input, output, jobs, commits, pulls, moves, submitted>>

\* line 52, GitHubService.get_repository: the repository, or GithubException
GetRepository(j) ==
    /\ task[j].pc = "get_repository"
    /\ \/ Goto(j, "discover")
       \/ Raise(j, "get_repository failed")
    /\ Call(j, <<"get_repository">>)
    /\ UNCHANGED <<now, layout, users, input, output, jobs, refs, commits, pulls, moves, submitted>>

\* as after_discovery, without the early return of lines 59-61
after_discovery_no_return(files) == "create_branch"

\* lines 55-61: discovery; with no convertible file process_repository returns
after_discovery(files) == IF files = << >> THEN "complete" ELSE "create_branch"

Discover(j) ==
    /\ task[j].pc = "discover"
    /\ \/ LET files == find_convertible_files(layout, jobs[j].source_languages)
          IN  task' = [task EXCEPT ![j].pc = after_discovery(files), ![j].files = files,
                                   ![j].discovered = TRUE]
       \/ Raise(j, "find_convertible_files failed")
    /\ Call(j, <<"find_convertible_files">>)
    /\ UNCHANGED <<now, layout, users, input, output, jobs, refs, commits, pulls, moves, submitted>>

\* GitHubService.create_branch, lines 98-117.  GitHub answers create_git_ref on an
\* existing ref with 422 "Reference already exists", which the code swallows.
create_git_ref(rs, source_branch, target_branch) ==
    IF rs[target_branch] # 0 THEN rs
    ELSE [rs EXCEPT ![target_branch] = rs[source_branch]]

\* GitHub's answer to the create_git_ref of line 105
create_git_ref_answer(rs, target_branch) ==
    IF rs[target_branch] # 0 THEN "Reference already exists" ELSE "created"

\* as create_branch_swallows, without the test of line 113: every GithubException is raised again
create_branch_reraises(message) == FALSE

\* lines 112-117: the GithubException that create_branch logs and does not raise again
create_branch_swallows(message) == message = "Reference already exists"

CreateBranch(j) ==
    /\ task[j].pc = "create_branch"
    /\ \/ /\ refs[jobs[j].source_branch] # 0
          /\ LET answer == create_git_ref_answer(refs, jobs[j].target_branch)
             IN  IF answer = "created" \/ create_branch_swallows(answer)
                 THEN /\ refs' = create_git_ref(refs, jobs[j].source_branch,
                                                jobs[j].target_branch)
                      /\ task' = [task EXCEPT ![j].pc = "files",
                                      ![j].branch_created = (refs[jobs[j].target_branch] = 0)]
                 ELSE /\ Raise(j, answer)
                      /\ UNCHANGED refs
       \/ /\ Raise(j, "create_branch failed")
          /\ UNCHANGED refs
    /\ Call(j, <<"create_branch">>)
    /\ UNCHANGED <<now, layout, users, input, output, jobs, commits, pulls, moves, submitted>>

\* what may happen to one file in the loop body, lines 71-110
FileOutcomes == {"ok", "read failed", "convert failed", "path failed", "format failed"}

\* what the loop keeps of an outcome: the exception itself is only logged
Logged(outcome) == IF outcome = "ok" THEN "ok" ELSE "skipped"

\* lines 98-110: the FileConversion record and the (path, content) pair
FileConversion(file, target_language) ==
    [original_path |-> file.path,
     converted_path |-> _get_target_path(file.path, target_language),
     converted_content |-> ConvertedBlob(file.path, target_language),
     source_language |-> file.language,
     target_language |-> target_language]

\* as after_file, without the try/except of lines 71 and 118: a failure leaves the loop
after_file_abort(t, target_language, outcome) ==
    LET file == t.files[t.idx]
        conv == FileConversion(file, target_language)
        seen == [t EXCEPT !.idx = t.idx + 1, !.outcomes = Append(t.outcomes, Logged(outcome))]
    IN  IF outcome = "ok"
        THEN [seen EXCEPT !.conversions = Append(t.conversions, conv),
                          !.files_to_commit = Append(t.files_to_commit,
                                <<conv.converted_path, conv.converted_content>>)]
        ELSE [seen EXCEPT !.pc = "except", !.err = outcome]

\* the task after one iteration of the loop that ended with outcome
after_file(t, target_language, outcome) ==
    LET file == t.files[t.idx]
        conv == FileConversion(file, target_language)
        seen == [t EXCEPT !.idx = t.idx + 1, !.outcomes = Append(t.outcomes, Logged(outcome))]
    IN  IF outcome = "ok"
        THEN [seen EXCEPT !.conversions = Append(t.conversions, conv),
                          !.files_to_commit = Append(t.files_to_commit,
                                <<conv.converted_path, conv.converted_content>>)]
        ELSE \* lines 118-123: logged, continue
             seen

ProcessFile(j) ==
    /\ task[j].pc = "files"
    /\ task[j].idx <= Len(task[j].files)
    /\ \E outcome \in FileOutcomes :
         /\ task' = [task EXCEPT ![j] = after_file(task[j], jobs[j].target_language, outcome)]
         \* line 77, the first call of the iteration, stands for the iteration
         /\ Call(j, <<"get_file_content">>)
    /\ UNCHANGED <<now, layout, users, input, output, jobs, refs, commits, pulls, moves, submitted>>

\* as after_loop, with the test of line 125 inverted
after_loop_inverted(files_to_commit) ==
    IF files_to_commit # << >> THEN "complete" ELSE "commit_read_tip"

\* lines 125-127: nothing converted, process_repository returns; else commit
after_loop(files_to_commit) == IF files_to_commit = << >> THEN "complete" ELSE "commit_read_tip"

EndOfLoop(j) ==
    /\ task[j].pc = "files"
    /\ task[j].idx > Len(task[j].files)
    /\ Goto(j, after_loop(task[j].files_to_commit))
    /\ Call(j, IF after_loop(task[j].files_to_commit) = "commit_read_tip"
               THEN <<"commit_files">> ELSE << >>)
    /\ UNCHANGED <<now, layout, users, input, output, jobs, refs, commits, pulls, moves, submitted>>

\* ------------------------------------------------ GitHubService.commit_files
\* is commit a reachable from commit c by following parents (a = c included)
RECURSIVE IsAncestor(_, _, _)
IsAncestor(cs, a, c) ==
    IF c = 0 THEN FALSE
    ELSE IF a = c THEN TRUE
    ELSE IsAncestor(cs, a, cs[c].parent)

Paths(pairs) == {pairs[i][1] : i \in 1..Len(pairs)}

\* lines 129-130: the ref of the branch is read, its sha is the parent to be
CommitReadTip(j) ==
    /\ task[j].pc = "commit_read_tip"
    /\ \/ /\ refs[jobs[j].target_branch] # 0
          /\ task' = [task EXCEPT ![j].pc = "commit_blobs",
                                  ![j].current_sha = refs[jobs[j].target_branch],
                                  ![j].tip_at_call = refs[jobs[j].target_branch]]
       \/ Raise(j, "commit_files failed")
    /\ UNCHANGED <<now, layout, users, input, output, jobs, refs, commits, pulls, moves, called, submitted>>

\* lines 132-136: one blob per file; a blob's sha stands for its content
CommitCreateBlobs(j) ==
    /\ task[j].pc = "commit_blobs"
    /\ \/ task' = [task EXCEPT ![j].pc = "commit_tree", ![j].blobs = task[j].files_to_commit]
       \/ Raise(j, "commit_files failed")
    /\ UNCHANGED <<now, layout, users, input, output, jobs, refs, commits, pulls, moves, called, submitted>>

\* repo.create_git_tree(tree_elements, base_tree): the base tree with the elements
\* laid over it.  A tree holds one entry per path: of several elements with the
\* same path GitHub keeps one, and which one is not specified.
create_git_tree(tree_elements, base_tree) ==
    LET ps == Paths(tree_elements)
        picks == {f \in [ps -> {e[2] : e \in Range(tree_elements)}] :
                     \A p \in ps : <<p, f[p]>> \in Range(tree_elements)}
    IN  {{e \in base_tree : e[1] \notin ps} \cup {<<p, f[p]>> : p \in ps} : f \in picks}

\* lines 138-152
CommitCreateTree(j) ==
    /\ task[j].pc = "commit_tree"
    /\ \/ \E new_tree \in create_git_tree(task[j].blobs, commits[task[j].current_sha].tree) :
            task' = [task EXCEPT ![j].pc = "commit_commit", ![j].new_tree = new_tree]
       \/ Raise(j, "commit_files failed")
    /\ UNCHANGED <<now, layout, users, input, output, jobs, refs, commits, pulls, moves, called, submitted>>

\* line 137: the lines of the commit message, one per conversion, in list order
commit_message(conversions) ==
    [i \in 1..Len(conversions) |->
        <<conversions[i].original_path, conversions[i].source_language,
          conversions[i].converted_path>>]

\* lines 155-159: the commit object, parent = the tip that was read
CommitCreateCommit(j) ==
    /\ task[j].pc = "commit_commit"
    /\ \/ /\ commits' = Append(commits,
                [parent |-> task[j].current_sha, tree |-> task[j].new_tree,
                 message |-> commit_message(task[j].conversions), author |-> j])
          /\ task' = [task EXCEPT ![j].pc = "commit_update_ref",
                                  ![j].commit_sha = Len(commits) + 1]
       \/ /\ Raise(j, "commit_files failed")
          /\ UNCHANGED commits
    /\ UNCHANGED <<now, layout, users, input, output, jobs, refs, pulls, moves, called, submitted>>

\* ref.edit(sha) without force: GitHub moves the ref only if the update is a
\* fast-forward of the ref as it is now, and answers 422 otherwise
ref_edit_accepted(cs, tip_now, sha) == IsAncestor(cs, tip_now, sha)

\* as CommitUpdateRef, with an except clause that logs and does not raise again
CommitUpdateRef_swallows(j) ==
    /\ task[j].pc = "commit_update_ref"
    /\ \/ /\ ref_edit_accepted(commits, refs[jobs[j].target_branch], task[j].commit_sha)
          /\ refs' = [refs EXCEPT ![jobs[j].target_branch] = task[j].commit_sha]
          /\ Goto(j, "pr_description")
          /\ Call(j, <<"commit_files returned">>)
       \/ /\ Goto(j, "pr_description")
          /\ UNCHANGED <<refs, called>>
    /\ UNCHANGED <<now, layout, users, input, output, jobs, commits, pulls, moves, submitted>>

\* line 162, and the except clause of lines 166-168
CommitUpdateRef(j) ==
    /\ task[j].pc = "commit_update_ref"
    /\ \/ /\ ref_edit_accepted(commits, refs[jobs[j].target_branch], task[j].commit_sha)
          /\ refs' = [refs EXCEPT ![jobs[j].target_branch] = task[j].commit_sha]
          /\ Goto(j, "pr_description")
          /\ Call(j, <<"commit_files returned">>)
       \/ /\ ~ ref_edit_accepted(commits, refs[jobs[j].target_branch], task[j].commit_sha)
          /\ Raise(j, "commit_files: update is not a fast forward")
          /\ UNCHANGED <<refs, called>>
       \/ /\ Raise(j, "commit_files failed")
          /\ UNCHANGED <<refs, called>>
    /\ UNCHANGED <<now, layout, users, input, output, jobs, commits, pulls, moves, submitted>>

\* --------------------------------------------------------- the pull request
\* LLMService.generate_pr_description, lines 262-273: the text of the response,
\* or, when the request fails, the error is logged and None is returned
GeneratePrDescription(j) ==
    /\ task[j].pc = "pr_description"
    /\ \E body \in {"llm text", "None"} :
         task' = [task EXCEPT ![j].pc = "create_pull_request", ![j].pr_body = body]
    /\ Call(j, <<"generate_pr_description">>)
    /\ UNCHANGED <<now, layout, users, input, output, jobs, refs, commits, pulls, moves, submitted>>

\* line 153
pr_title(conversions, target_language) ==
    [target_language |-> target_language, files |-> Len(conversions)]

\* as CreatePullRequest, with target_branch and source_branch passed in the other order
CreatePullRequest_swapped(j) ==
    /\ task[j].pc = "create_pull_request"
    /\ \/ /\ task[j].pr_body # "None"
          /\ pulls' = Append(pulls,
                [title |-> pr_title(task[j].conversions, jobs[j].target_language),
                 body |-> task[j].pr_body,
                 head |-> jobs[j].source_branch, base |-> jobs[j].target_branch,
                 author |-> j])
          /\ task' = [task EXCEPT ![j].pc = "complete", ![j].pr_url = Len(pulls) + 1]
       \/ /\ task[j].pr_body # "None"
          /\ Raise(j, "create_pull_request rejected")
          /\ UNCHANGED pulls
       \/ /\ task[j].pr_body = "None"
          /\ Raise(j, "create_pull: body is not a string")
          /\ UNCHANGED pulls
    /\ Call(j, <<"create_pull_request">>)
    /\ UNCHANGED <<now, layout, users, input, output, jobs, refs, commits, moves, submitted>>

\* GitHubService.create_pull_request, lines 170-192.  PyGithub's create_pull
\* asserts that body is a string, so a None body raises before any request.
CreatePullRequest(j) ==
    /\ task[j].pc = "create_pull_request"
    /\ \/ /\ task[j].pr_body # "None"
          /\ pulls' = Append(pulls,
                [title |-> pr_title(task[j].conversions, jobs[j].target_language),
                 body |-> task[j].pr_body,
                 head |-> jobs[j].target_branch, base |-> jobs[j].source_branch,
                 author |-> j])
          /\ task' = [task EXCEPT ![j].pc = "complete", ![j].pr_url = Len(pulls) + 1]
       \/ /\ task[j].pr_body # "None"
          /\ Raise(j, "create_pull_request rejected")
          /\ UNCHANGED pulls
       \/ /\ task[j].pr_body = "None"
          /\ Raise(j, "create_pull: body is not a string")
          /\ UNCHANGED pulls
    /\ Call(j, <<"create_pull_request">>)
    /\ UNCHANGED <<now, layout, users, input, output, jobs, refs, commits, moves, submitted>>

\* ------------------------------------------------- the end of the background task
\* lines 458-463: process_repository returned
completed_status(status) == IF status = "processing" THEN "completed" ELSE status

\* as CompleteJob, with a statement after the commit of line 463 that raises
CompleteJob_then_raise(j) ==
    /\ task[j].pc = "complete"
    /\ jobs' = [jobs EXCEPT ![j].status = completed_status(jobs[j].status)]
    /\ Raise(j, "raised after completion")
    /\ UNCHANGED <<now, layout, users, input, output, refs, commits, pulls, moves, called, submitted>>

\* as CompleteJob, also storing the number of converted files, and only that counter
CompleteJob_counts_converted(j) ==
    /\ task[j].pc = "complete"
    /\ jobs' = [jobs EXCEPT ![j].status = completed_status(jobs[j].status),
                            ![j].files_converted =
                                Cardinality({i \in 1..Len(task[j].outcomes) :
                                                task[j].outcomes[i] = "ok"})]
    /\ Return(j)
    /\ UNCHANGED <<now, layout, users, input, output, refs, commits, pulls, moves, called, submitted>>

CompleteJob(j) ==
    /\ task[j].pc = "complete"
    /\ jobs' = [jobs EXCEPT ![j].status = completed_status(jobs[j].status)]
    /\ Return(j)
    /\ UNCHANGED <<now, layout, users, input, output, refs, commits, pulls, moves, called, submitted>>

\* as FailJob, without line 472
FailJob_no_message(j) ==
    /\ task[j].pc = "except"
    /\ jobs' = [jobs EXCEPT ![j].status = "failed"]
    /\ Return(j)
    /\ UNCHANGED <<now, layout, users, input, output, refs, commits, pulls, moves, called, submitted>>

\* lines 465-474: the handler records the failure
FailJob(j) ==
    /\ task[j].pc = "except"
    /\ jobs' = [jobs EXCEPT ![j].status = "failed", ![j].error_message = task[j].err]
    /\ Return(j)
    /\ UNCHANGED <<now, layout, users, input, output, refs, commits, pulls, moves, called, submitted>>

\* ------------------------------------------------------------ the job queries
\* the API key of a user (User.api_key, unique), and the bearer tokens a request may carry
api_key(u) == <<"key", u>>

ApiKeys == {api_key(u) : u \in Users} \cup {<<"key", "nobody">>}

\* AuthService.authenticate_user: the active user with that API key, if any
authenticate_user(key) ==
    IF \E u \in Users : api_key(u) = key
    THEN [found |-> TRUE, user |-> CHOOSE u \in Users : api_key(u) = key]
    ELSE [found |-> FALSE]

\* main.get_current_user: 401 without a user
get_current_user(key) ==
    LET r == authenticate_user(key)
    IN  IF r.found THEN [status_code |-> 200, user |-> r.user] ELSE [status_code |-> 401]

\* JobStatusResponse(...) of lines 273-287 and 309-323
JobStatusResponse(job_id) ==
    [job_id |-> job_id, status |-> jobs[job_id].status,
     source_branch |-> jobs[job_id].source_branch,
     target_branch |-> jobs[job_id].target_branch,
     files_processed |-> jobs[job_id].files_processed,
     files_converted |-> jobs[job_id].files_converted,
     pr_url |-> jobs[job_id].pr_url, error_message |-> jobs[job_id].error_message]

\* as get_job_status, without the user_id filter of line 267
get_job_status_any_owner(job_id, key) ==
    LET auth == get_current_user(key)
    IN  IF auth.status_code # 200 THEN [status_code |-> auth.status_code]
        ELSE IF \E id \in JobIds : id = job_id
        THEN [status_code |-> 200, body |-> JobStatusResponse(job_id)]
        ELSE [status_code |-> 404]

\* GET /jobs/{job_id} with a bearer token
get_job_status(job_id, key) ==
    LET auth == get_current_user(key)
    IN  IF auth.status_code # 200 THEN [status_code |-> auth.status_code]
        ELSE IF \E id \in JobIds : id = job_id /\ jobs[id].user_id = auth.user
        THEN [status_code |-> 200, body |-> JobStatusResponse(job_id)]
        ELSE [status_code |-> 404]

\* the ids of the jobs of user, newest first (order_by created_at desc)
RECURSIVE JobsOf(_, _)
JobsOf(user, n) ==
    IF n = 0 THEN << >>
    ELSE (IF jobs[n].user_id = user THEN <<n>> ELSE << >>) \o JobsOf(user, n - 1)

\* the values of limit and offset a request may carry (limit defaults to 10, offset to 0)
Limits == {1, 10}
Offsets == {0, 1}

\* s[offset : offset + limit]
Page(s, offset, limit) ==
    IF offset >= Len(s) THEN << >>
    ELSE SubSeq(s, offset + 1, IF offset + limit < Len(s) THEN offset + limit ELSE Len(s))

\* GET /jobs with a bearer token
list_user_jobs(key, limit, offset) ==
    LET auth == get_current_user(key)
    IN  IF auth.status_code # 200 THEN [status_code |-> auth.status_code]
        ELSE LET ids == Page(JobsOf(auth.user, Len(jobs)), offset, limit)
             IN  [status_code |-> 200,
                  body |-> [i \in 1..Len(ids) |-> JobStatusResponse(ids[i])]]

\* ------------------------------------------------------------ other writers
\* the branches on which a commit_files call has read the tip and not yet moved
\* the ref: a move by another writer before the read is simply seen by the read
BranchesInUse ==
    {jobs[j].target_branch : j \in {i \in JobIds : task[i].pc \in
        {"commit_blobs", "commit_tree", "commit_commit", "commit_update_ref"}}}

\* somebody else pushes a commit to a branch a job works on
WriterPush(b) ==
    /\ moves < MaxWriterMoves
    /\ b \in BranchesInUse
    /\ refs[b] # 0
    /\ commits' = Append(commits,
          [parent |-> refs[b],
           tree |-> commits[refs[b]].tree \cup {<< <<"w">>, <<"src", <<"w">>, "">> >>},
           message |-> << >>, author |-> -1])
    /\ refs' = [refs EXCEPT ![b] = Len(commits) + 1]
    /\ moves' = moves + 1
    /\ UNCHANGED <<now, layout, users, input, output, jobs, task, pulls, called, submitted>>

\* somebody else force-pushes the branch back to the parent of its tip
WriterRewind(b) ==
    /\ moves < MaxWriterMoves
    /\ b \in BranchesInUse
    /\ refs[b] # 0
    /\ commits[refs[b]].parent # 0
    /\ refs' = [refs EXCEPT ![b] = commits[refs[b]].parent]
    /\ moves' = moves + 1
    /\ UNCHANGED <<now, layout, users, input, output, jobs, task, commits, pulls, called, submitted>>

\* ------------------------------------------------------------ specification
Next ==
    \/ Tick
    \/ \E u \in Users, r \in Requests : convert_repository(u, r)
    \/ \E j \in JobIds : StartJob(j)
    \/ \E j \in JobIds : ResolveCredentials(j)
    \/ \E j \in JobIds : GetRepository(j)
    \/ \E j \in JobIds : Discover(j)
    \/ \E j \in JobIds : CreateBranch(j)
    \/ \E j \in JobIds : ProcessFile(j)
    \/ \E j \in JobIds : EndOfLoop(j)
    \/ \E j \in JobIds : CommitReadTip(j)
    \/ \E j \in JobIds : CommitCreateBlobs(j)
    \/ \E j \in JobIds : CommitCreateTree(j)
    \/ \E j \in JobIds : CommitCreateCommit(j)
    \/ \E j \in JobIds : CommitUpdateRef(j)
    \/ \E j \in JobIds : GeneratePrDescription(j)
    \/ \E j \in JobIds : CreatePullRequest(j)
    \/ \E j \in JobIds : CompleteJob(j)
    \/ \E j \in JobIds : FailJob(j)
    \/ \E b \in BranchNames : WriterPush(b)
    \/ \E b \in BranchNames : WriterRewind(b)

Spec == Init /\ [][Next]_vars

\* ------------------------------------------------- the ledger may fail too
\* Every db.query and db.commit of process_conversion_job may raise as well.
\* Lines 413-423 are inside the try block: the handler runs.
StartJobLedgerError(j) ==
    /\ task[j].pc = "start"
    /\ Cardinality(Running) < MaxRunning
    /\ Raise(j, "database error")
    /\ UNCHANGED <<now, layout, users, input, output, jobs, refs, commits, pulls, moves, called, submitted>>

\* lines 459-463 are inside the try block: the handler runs
CompleteJobLedgerError(j) ==
    /\ task[j].pc = "complete"
    /\ Raise(j, "database error")
    /\ UNCHANGED <<now, layout, users, input, output, jobs, refs, commits, pulls, moves, called, submitted>>

\* lines 469-474 are the handler itself: what it raises leaves
\* process_conversion_job, and the row stays as it was
FailJobLedgerError(j) ==
    /\ task[j].pc = "except"
    /\ task' = [task EXCEPT ![j] =
                  [NewTask EXCEPT !.pc = "done", !.err = "database error", !.escaped = TRUE,
                                  !.files = task[j].files, !.outcomes = task[j].outcomes,
                                  !.pr_url = task[j].pr_url,
                                  !.discovered = task[j].discovered,
                                  !.branch_created = task[j].branch_created]]
    /\ UNCHANGED <<now, layout, users, input, output, jobs, refs, commits, pulls, moves, called, submitted>>

NextLedgerFaults ==
    \/ Next
    \/ \E j \in JobIds : StartJobLedgerError(j)
    \/ \E j \in JobIds : CompleteJobLedgerError(j)
    \/ \E j \in JobIds : FailJobLedgerError(j)

SpecLedgerFaults == Init /\ [][NextLedgerFaults]_vars

\* ------------------------------------------------------------- scheduling
\* a step of some background task: the event loop runs a task it has started
\* until the task returns, and starts the tasks that are queued
TaskStep ==
    \E j \in JobIds :
        \/ StartJob(j) \/ ResolveCredentials(j) \/ GetRepository(j) \/ Discover(j)
        \/ CreateBranch(j) \/ ProcessFile(j) \/ EndOfLoop(j) \/ CommitReadTip(j)
        \/ CommitCreateBlobs(j) \/ CommitCreateTree(j) \/ CommitCreateCommit(j)
        \/ CommitUpdateRef(j) \/ GeneratePrDescription(j) \/ CreatePullRequest(j)
        \/ CompleteJob(j) \/ FailJob(j)

FairSpec == Spec /\ WF_vars(TaskStep)

\* ================================================================ the claims
CommitPcs ==
    {"commit_read_tip", "commit_blobs", "commit_tree", "commit_commit", "commit_update_ref"}

NoCommitBy(j) == \A c \in 1..Len(commits) : commits[c].author # j
NoPullBy(j)   == \A n \in 1..Len(pulls) : pulls[n].author # j

\* the (path, content) pairs of the files the loop converted, in discovery order
RECURSIVE ExpectedBatch(_, _, _, _)
ExpectedBatch(files, outcomes, target_language, i) ==
    IF i > Len(outcomes) THEN << >>
    ELSE (IF outcomes[i] = "ok"
          THEN << <<_get_target_path(files[i].path, target_language),
                    ConvertedBlob(files[i].path, target_language)>> >>
          ELSE << >>)
         \o ExpectedBatch(files, outcomes, target_language, i + 1)

\* C1: every step of commit_files, whether the call then returns or raises,
\* either leaves the ref of the branch where it is or moves it to one new commit
\* whose parent is the tip the call found and whose tree holds every
\* (path, content) pair of the batch.
C1_CommitAllOrNothing ==
    [][\A j \in JobIds :
         (task[j].pc \in CommitPcs /\ task'[j].pc # task[j].pc) =>
            LET b   == jobs[j].target_branch
                tip == IF task[j].pc = "commit_read_tip" THEN refs[b] ELSE task[j].tip_at_call
            IN  \/ refs'[b] = refs[b]
                \/ /\ commits'[refs'[b]].author = j
                   /\ commits'[refs'[b]].parent = tip
                   /\ \A e \in Range(task[j].files_to_commit) : e \in commits'[refs'[b]].tree
      ]_vars

\* the same statement for the batches whose paths are pairwise distinct
CommitAllOrNothing_DistinctPaths ==
    [][\A j \in JobIds :
         (task[j].pc \in CommitPcs /\ task'[j].pc # task[j].pc
          /\ Cardinality(Paths(task[j].files_to_commit)) = Len(task[j].files_to_commit)) =>
            LET b   == jobs[j].target_branch
                tip == IF task[j].pc = "commit_read_tip" THEN refs[b] ELSE task[j].tip_at_call
            IN  \/ refs'[b] = refs[b]
                \/ /\ commits'[refs'[b]].author = j
                   /\ commits'[refs'[b]].parent = tip
                   /\ \A e \in Range(task[j].files_to_commit) : e \in commits'[refs'[b]].tree
      ]_vars

\* C2: when the ref of the branch is no longer the tip commit_files read, the
\* update of the ref fails and leaves the ref where the other writer put it.
C2_RefUpdateIsCompareAndSwap ==
    [][\A j \in JobIds :
         (task[j].pc = "commit_update_ref" /\ task'[j].pc # "commit_update_ref"
            /\ refs[jobs[j].target_branch] # task[j].current_sha)
         => /\ task'[j].pc = "except"
            /\ refs'[jobs[j].target_branch] = refs[jobs[j].target_branch]
      ]_vars

\* C3: a file of the loop that fails never ends the loop: inside the loop every
\* file before the current one has been attempted, once the loop is left every
\* discovered file has been attempted, and the commit batch is exactly the files
\* whose steps all succeeded.
C3_FileFailureIsolated ==
    \A j \in JobIds :
        LET t == task[j]
        IN  /\ t.pc = "files" => Len(t.outcomes) = t.idx - 1
            /\ (t.pc # "files" /\ t.outcomes # << >>) => Len(t.outcomes) = Len(t.files)
            /\ t.pc \in {"files"} \cup CommitPcs =>
                 t.files_to_commit =
                    ExpectedBatch(t.files, t.outcomes, jobs[j].target_language, 1)

\* C3 witness: a file failed, the next one was converted and is about to be committed
C3_Witness ==
    \E j \in JobIds :
        /\ task[j].pc = "commit_read_tip"
        /\ task[j].outcomes = <<"skipped", "ok">>
        /\ Len(task[j].files_to_commit) = 1

\* C4: the status of a job changes only from pending to processing and from
\* processing to completed or failed.
C4_StatusMovesForward ==
    [][\A j \in JobIds :
         jobs'[j].status # jobs[j].status =>
            \/ jobs[j].status = "pending" /\ jobs'[j].status = "processing"
            \/ jobs[j].status = "processing" /\ jobs'[j].status \in {"completed", "failed"}
      ]_vars

\* C4 witness: one job has completed and another has failed
C4_Witness ==
    \E i, j \in JobIds :
        /\ jobs[i].status = "completed" /\ task[i].pc = "done"
        /\ jobs[j].status = "failed" /\ task[j].pc = "done"

\* C5: a background task that has ended has left its job completed or failed.
C5_EndedJobIsTerminal ==
    \A j \in JobIds :
        task[j].pc = "done" => jobs[j].status \in {"completed", "failed"}

\* with a ledger that does not fail (FairSpec), every job that was accepted ends
\* completed or failed
EveryJobEnds ==
    \A j \in 1..MaxJobs :
        [](j \in JobIds => <>(j \in JobIds /\ jobs[j].status \in {"completed", "failed"}))

FatalGatewayErrors ==
    {"create_branch failed", "commit_files failed",
     "commit_files: update is not a fast forward", "create_pull_request rejected"}

C8_RepositoryFailureStopsJob ==
    \A j \in JobIds :
        task[j].err = "get_repository failed" =>
            /\ task[j].pc \in {"except", "done"}
            /\ ~ task[j].discovered /\ task[j].files = << >> /\ task[j].outcomes = << >>
            /\ ~ task[j].branch_created
            /\ NoCommitBy(j) /\ NoPullBy(j)
            /\ task[j].pc = "done" => jobs[j].status = "failed"

\* C8 witness: a job that ended after get_repository failed
C8_Witness ==
    \E j \in JobIds :
        /\ task[j].pc = "done" /\ task[j].err = "get_repository failed"
        /\ jobs[j].status = "failed"

\* C9: a job whose discovery returned no file writes nothing on GitHub (no branch,
\* no commit, no pull request) and ends completed with both counters 0.
C9_NoFilesCompletes ==
    \A j \in JobIds :
        (task[j].discovered /\ task[j].files = << >>) =>
            /\ task[j].pc \in {"complete", "done"}
            /\ ~ task[j].branch_created
            /\ NoCommitBy(j) /\ NoPullBy(j)
            /\ task[j].pc = "done" =>
                 /\ jobs[j].status = "completed"
                 /\ jobs[j].files_processed = 0 /\ jobs[j].files_converted = 0

\* C9 witness: a job that ended after a discovery that returned no file
C9_Witness ==
    \E j \in JobIds :
        /\ task[j].pc = "done" /\ task[j].discovered /\ task[j].files = << >>
        /\ jobs[j].status = "completed"

\* C10: a job that discovered N >= 1 files and converted none of them ends
\* completed with files_processed = N and files_converted = 0, without a commit
\* and without a pull request.
C10_AllFailedCounts ==
    \A j \in JobIds :
        LET t == task[j]
        IN  (/\ t.pc = "done" /\ t.discovered /\ Len(t.files) >= 1
             /\ Len(t.outcomes) = Len(t.files)
             /\ \A i \in 1..Len(t.outcomes) : t.outcomes[i] = "skipped")
            => /\ jobs[j].status = "completed"
               /\ jobs[j].files_processed = Len(t.files)
               /\ jobs[j].files_converted = 0
               /\ NoCommitBy(j) /\ NoPullBy(j)

\* C11: in every state every job record has files_converted <= files_processed.
C11_ConvertedAtMostProcessed ==
    \A j \in JobIds : jobs[j].files_converted <= jobs[j].files_processed

\* C11 witness: a job that converted a file and opened its pull request has ended
C11_Witness ==
    \E j \in JobIds :
        /\ task[j].pc = "done" /\ jobs[j].status = "completed"
        /\ \E i \in 1..Len(task[j].outcomes) : task[j].outcomes[i] = "ok"
        /\ ~ NoPullBy(j)

\* C12: a job that opened a pull request and ended completed has the URL that
\* create_pull_request returned as pr_url of its record, and the status query of
\* its owner returns that URL.
C12_PrUrlRecorded ==
    \A j \in JobIds :
        (task[j].pc = "done" /\ jobs[j].status = "completed" /\ task[j].pr_url # 0) =>
            /\ jobs[j].pr_url = task[j].pr_url
            /\ get_job_status(j, api_key(jobs[j].user_id)).body.pr_url = task[j].pr_url

\* how often step occurs in the steps a job has taken
Count(steps, step) == Cardinality({i \in 1..Len(steps) : steps[i] = step})

\* C13: a job calls commit_files at most once; once its loop has ended with at
\* least one converted file it has called it exactly once; and the batch of the
\* call is exactly the converted files, in discovery order.
C13_CommitOnceWithConvertedFiles ==
    \A j \in JobIds :
        LET t == task[j]
            n == Count(called[j], "commit_files")
        IN  /\ n <= 1
            /\ (/\ t.pc # "files" /\ Len(t.outcomes) = Len(t.files)
                /\ \E i \in 1..Len(t.outcomes) : t.outcomes[i] = "ok") => n = 1
            /\ n = 1 => \E i \in 1..Len(t.outcomes) : t.outcomes[i] = "ok"
            /\ t.pc \in CommitPcs =>
                  /\ Len(t.outcomes) = Len(t.files)
                  /\ t.files_to_commit =
                        ExpectedBatch(t.files, t.outcomes, jobs[j].target_language, 1)

\* C13 witness: a job whose first file converted and whose second failed has
\* ended after its one call of commit_files
C13_Witness ==
    \E j \in JobIds :
        /\ task[j].pc = "done" /\ jobs[j].status = "completed"
        /\ task[j].outcomes = <<"ok", "skipped">>
        /\ Count(called[j], "commit_files") = 1

\* C14: the paths of the batch given to commit_files are pairwise distinct.
C14_BatchPathsDistinct ==
    \A j \in JobIds :
        task[j].pc \in CommitPcs =>
            Cardinality(Paths(task[j].files_to_commit)) = Len(task[j].files_to_commit)

\* C15: when the summary could not be generated, the step that follows opens the
\* pull request with a body that was produced without the LLM, and the job goes
\* on to be completed.
C15_SummaryFailureFallsBack ==
    [][\A j \in JobIds :
         (task[j].pc = "create_pull_request" /\ task[j].pr_body = "None"
            /\ task'[j].pc # "create_pull_request")
         => /\ Len(pulls') = Len(pulls) + 1
            /\ pulls'[Len(pulls')].author = j
            /\ pulls'[Len(pulls')].body # "None"
            /\ task'[j].pc = "complete"
      ]_vars

\* C16: create_branch on a target branch that exists leaves the ref where it is
\* and does not raise because of it (the job goes on to the file loop unless the
\* call failed for another reason), and the commit of a job that found its branch
\* existing has the tip read from that branch as parent.
C16_ExistingBranchIsReused ==
    [][\A j \in JobIds :
         LET b == jobs[j].target_branch
         IN  /\ (task[j].pc = "create_branch" /\ task'[j].pc # "create_branch" /\ refs[b] # 0)
                => /\ refs'[b] = refs[b]
                   /\ \/ task'[j].pc = "files" /\ ~ task'[j].branch_created
                      \/ task'[j].pc = "except" /\ task'[j].err = "create_branch failed"
             /\ (task[j].pc = "commit_read_tip" /\ task'[j].pc = "commit_blobs"
                   /\ ~ task[j].branch_created)
                => task'[j].current_sha = refs[b]
             /\ (task[j].pc = "commit_commit" /\ task'[j].pc = "commit_update_ref"
                   /\ ~ task[j].branch_created)
                => commits'[task'[j].commit_sha].parent = task[j].current_sha
      ]_vars

\* C16 witness: a job that found its target branch created by an earlier job has
\* ended completed, its commit on top of the earlier job's commit
C16_Witness ==
    \E j \in JobIds :
        /\ task[j].pc = "done" /\ jobs[j].status = "completed"
        /\ ~ task[j].branch_created
        /\ \E c \in 1..Len(commits) :
              /\ commits[c].author = j
              /\ refs[jobs[j].target_branch] = c
              /\ commits[commits[c].parent].author \in JobIds \ {j}

\* the steps of process_repository for n discovered files, in the order of the spec
CanonicalOrder(n) ==
    <<"get_repository", "find_convertible_files", "create_branch">>
    \o [i \in 1..n |-> "get_file_content"]
    \o <<"commit_files", "commit_files returned", "generate_pr_description",
         "create_pull_request">>

IsPrefix(s, t) == Len(s) <= Len(t) /\ SubSeq(t, 1, Len(s)) = s

\* C17: the steps a job has taken are an initial part of: get repository,
\* discover, create branch, one conversion per discovered file, commit, summarize,
\* open pull request; inside commit_files every discovered file has been converted
\* or skipped; the summary and the pull request come only after commit_files has
\* returned.
C17_StepsInOrder ==
    \A j \in JobIds :
        /\ IsPrefix(called[j], CanonicalOrder(Len(task[j].files)))
        /\ task[j].pc \in CommitPcs => Len(task[j].outcomes) = Len(task[j].files)
        /\ (task[j].pc \in {"pr_description", "create_pull_request"} \/ ~ NoPullBy(j))
              => /\ Count(called[j], "commit_files returned") = 1
                 /\ ~ NoCommitBy(j)

\* C17 witness: a job with two discovered files has taken every step and ended
C17_Witness ==
    \E j \in JobIds :
        /\ task[j].pc = "done" /\ Len(task[j].files) = 2
        /\ called[j] = CanonicalOrder(2)
        /\ ~ NoPullBy(j)

\* C18: every pull request has the target branch of the job that opened it as
\* head and its source branch as base, and its title carries the job's target
\* language and the number of files the job converted.
C18_PullRequestFields ==
    \A n \in 1..Len(pulls) :
        LET j == pulls[n].author
        IN  /\ pulls[n].head = jobs[j].target_branch
            /\ pulls[n].base = jobs[j].source_branch
            /\ pulls[n].title.target_language = jobs[j].target_language
            /\ pulls[n].title.files = Count(task[j].outcomes, "ok")

\* C18 witness: a pull request for two converted files, from a branch other than its base
C18_Witness ==
    \E n \in 1..Len(pulls) :
        /\ pulls[n].title.files = 2
        /\ pulls[n].head # pulls[n].base
        /\ task[pulls[n].author].pc = "done"

\* C19: for every bearer token and every job id, get_job_status answers with
\* the job only if the token is the API key of the job's owner and with 404 for
\* any other user's token, and every entry of list_user_jobs, for every limit and
\* offset, is a job of the user the token belongs to.
C19_JobsVisibleToOwnerOnly ==
    \A key \in ApiKeys :
        LET auth == get_current_user(key)
        IN  /\ \A id \in 1..MaxJobs :
                 LET r == get_job_status(id, key)
                     own == auth.status_code = 200 /\ id \in JobIds
                            /\ jobs[id].user_id = auth.user
                 IN  /\ r.status_code = 200 <=> own
                     /\ r.status_code = 200 => r.body.job_id = id
                     /\ (auth.status_code = 200 /\ ~ own) => r.status_code = 404
            /\ \A limit \in Limits, offset \in Offsets :
                 LET r == list_user_jobs(key, limit, offset)
                 IN  r.status_code = 200 =>
                        /\ auth.status_code = 200
                        /\ \A i \in 1..Len(r.body) :
                               jobs[r.body[i].job_id].user_id = auth.user

\* C19 witness: two users have a job each; each gets their own job and 404 for
\* the other's, and lists exactly their own
C19_Witness ==
    \E i, j \in JobIds :
        /\ jobs[i].user_id # jobs[j].user_id
        /\ get_job_status(i, api_key(jobs[i].user_id)).status_code = 200
        /\ get_job_status(i, api_key(jobs[j].user_id)).status_code = 404
        /\ Len(list_user_jobs(api_key(jobs[j].user_id), 10, 0).body) = 1
        /\ list_user_jobs(api_key(jobs[j].user_id), 10, 0).body[1].job_id = j

\* does path match the glob pattern, where * stands for any run of characters
RECURSIVE GlobMatch(_, _)
GlobMatch(pattern, path) ==
    IF pattern = << >> THEN path = << >>
    ELSE IF Head(pattern) = "*"
    THEN \/ GlobMatch(Tail(pattern), path)
         \/ path # << >> /\ GlobMatch(pattern, Tail(path))
    ELSE /\ path # << >>
         /\ Head(path) = Head(pattern)
         /\ GlobMatch(Tail(pattern), Tail(path))

MatchesAny(patterns, path) == \E i \in 1..Len(patterns) : GlobMatch(patterns[i], path)

\* the request rules path out: an exclude pattern matches it, or include
\* patterns are given and none matches it
RuledOut(request, path) ==
    \/ request.exclude_patterns.given /\ MatchesAny(request.exclude_patterns.patterns, path)
    \/ request.include_patterns.given /\ ~ MatchesAny(request.include_patterns.patterns, path)

\* C20: a file that the include and exclude patterns of the job's request rule
\* out is never converted and never in the commit batch.
C20_PatternsObeyed ==
    \A j \in JobIds :
        /\ \A i \in 1..Len(task[j].outcomes) :
              RuledOut(submitted[j], task[j].files[i].path) => task[j].outcomes[i] # "ok"
        /\ \A i \in 1..Len(task[j].conversions) :
              ~ RuledOut(submitted[j], task[j].conversions[i].original_path)

\* ============================================== the functions studied alone
\* ------------------------------------ LLMService.convert_code_to_python
\* The text of a response is a sequence of tokens: a fence of three
\* backticks, the word python, a line break, and x for any other run of text.
Fence   == "fence"
Newline == "\n"
Tokens  == {Fence, "python", Newline, "x"}

MaxResponse == 6      \* tokens in a response of the LLM

Responses == UNION {[1..n -> Tokens] : n \in 0..MaxResponse}

\* str.find, from 1; 0 when sub does not occur
IndexOf(s, sub) ==
    LET I == {i \in 1..(Len(s) - Len(sub) + 1) : SubSeq(s, i, i + Len(sub) - 1) = sub}
    IN  IF I = {} THEN 0 ELSE CHOOSE i \in I : \A k \in I : i <= k

\* sub in s
Contains(s, sub) == IndexOf(s, sub) # 0

\* s.split(sep)[0]
split_first(s, sep) ==
    IF IndexOf(s, sep) = 0 THEN s ELSE SubSeq(s, 1, IndexOf(s, sep) - 1)

\* s.split(sep)[1], for an s that holds sep
split_second(s, sep) ==
    split_first(SubSeq(s, IndexOf(s, sep) + Len(sep), Len(s)), sep)

\* str.strip
strip(s) ==
    LET I == {i \in 1..Len(s) : s[i] # Newline}
    IN  IF I = {} THEN << >>
        ELSE SubSeq(s, CHOOSE i \in I : \A k \in I : i <= k,
                       CHOOSE i \in I : \A k \in I : i >= k)

\* str.replace, for a non-empty old
RECURSIVE replace(_, _, _)
replace(s, old, new) ==
    LET i == IndexOf(s, old)
    IN  IF i = 0 THEN s
        ELSE SubSeq(s, 1, i - 1) \o new \o replace(SubSeq(s, i + Len(old), Len(s)), old, new)

\* the match of the pattern of lines 201 and 204 (a fence, an optional python,
\* a line break, the shortest body, a line break, a fence) that starts at i
NoMatch == [start |-> 0, end |-> 0, body |-> << >>]

match_at(s, i) ==
    LET b == IF i + 2 <= Len(s) /\ s[i + 1] = "python" /\ s[i + 2] = Newline THEN i + 3
             ELSE IF i + 1 <= Len(s) /\ s[i + 1] = Newline THEN i + 2
             ELSE 0
        E == {e \in (b - 1)..(Len(s) - 2) : s[e + 1] = Newline /\ s[e + 2] = Fence}
    IN  IF s[i] # Fence \/ b = 0 \/ E = {} THEN NoMatch
        ELSE LET e == CHOOSE x \in E : \A y \in E : x <= y
             IN  [start |-> i, end |-> e + 2, body |-> SubSeq(s, b, e)]

\* re.findall(...)[0]: the leftmost match
first_block(s) ==
    LET I == {i \in 1..Len(s) : match_at(s, i).start # 0}
    IN  IF I = {} THEN NoMatch ELSE match_at(s, CHOOSE i \in I : \A k \in I : i <= k)

\* re.sub(..., '', content)
RECURSIVE re_sub_blocks(_)
re_sub_blocks(s) ==
    LET m == first_block(s)
    IN  IF m.start = 0 THEN s
        ELSE SubSeq(s, 1, m.start - 1) \o re_sub_blocks(SubSeq(s, m.end + 1, Len(s)))

selection_note == << "Conversion completed with intelligent library selection" >>
patterns_note  == << "Code converted using best-practice Python libraries and patterns" >>

\* lines 187-221: what convert_code_to_python returns for the response content
convert_code_to_python(content) ==
    LET tagged == << Fence, "python" >>
        parsed ==
            IF Contains(content, tagged)
            THEN LET code_part == strip(split_first(split_second(content, tagged), << Fence >>))
                 IN  [code_part |-> code_part,
                      explanation |->
                          strip(replace(content,
                                        tagged \o << Newline >> \o code_part \o << Newline, Fence >>,
                                        << >>))]
            ELSE IF Contains(content, << Fence >>) /\ Contains(content, << "python" >>)
            THEN LET m == first_block(content)
                 IN  IF m.start # 0
                     THEN [code_part |-> strip(m.body),
                           explanation |-> strip(re_sub_blocks(content))]
                     ELSE [code_part |-> content, explanation |-> selection_note]
            ELSE [code_part |-> content, explanation |-> selection_note]
        explanation == strip(replace(parsed.explanation, << Fence >>, << >>))
    IN  [code_part |-> parsed.code_part,
         explanation |-> IF explanation = << >> THEN patterns_note ELSE explanation]

\* ------------------------------------------------ the calls and their inputs
deploy_stem == <<"d","e","p","l","o","y">>
Stems == { <<"a">>, <<"d","/","a">>, deploy_stem }

\* a path ends with a supported extension, with none, with an extension that
\* is not supported, or holds a supported extension before an unsupported one
Endings ==
    {e.ext : e \in Range(supported_extensions)} \cup {<< >>, txt}
        \cup {e.ext \o txt : e \in Range(supported_extensions)}

OriginalPaths == {stem \o ending : stem \in Stems, ending \in Endings}

\* ConversionRequest.target_language is any string: the six of the table, and others
TargetLanguages == {"python", "javascript", "typescript", "go", "rust", "java", "ruby", ""}

\* ConversionRequest.source_languages
Filters == {None, << >>, <<"shell">>, <<"typescript", "r">>, <<"cobol">>}

PathInputs ==
    [fn : {"_get_target_path"}, original_path : OriginalPaths,
     target_language : TargetLanguages]

DiscoveryInputs ==
    [fn : {"find_convertible_files"}, tree : Trees, source_languages : Filters]

ResponseInputs == [fn : {"convert_code_to_python"}, content : Responses]

MessageInputs ==
    [fn : {"commit_message"}, tree : Trees, target_language : {"python", "javascript"}]

\* the conversions list of process_repository when every file of repository l converts
ConversionsOf(l, target_language) ==
    LET files == find_convertible_files(l, None)
    IN  [i \in 1..Len(files) |-> FileConversion(files[i], target_language)]

server == <<now, layout, users, jobs, task, refs, commits, pulls, moves, called, submitted>>

InitFunctions ==
    /\ InitServer
    /\ layout = 1
    /\ users = UsersTable(TRUE)
    /\ \/ input \in PathInputs
       \/ input \in DiscoveryInputs
       \/ input \in ResponseInputs
       \/ input \in MessageInputs
    /\ output = NoCall

Call_get_target_path ==
    /\ input.fn = "_get_target_path"
    /\ output = NoCall
    /\ output' = [fn |-> input.fn,
                  converted_path |-> _get_target_path(input.original_path,
                                                      input.target_language)]
    /\ UNCHANGED <<server, input>>

Call_find_convertible_files ==
    /\ input.fn = "find_convertible_files"
    /\ output = NoCall
    /\ output' = [fn |-> input.fn,
                  convertible_files |-> find_convertible_files(input.tree,
                                                               input.source_languages)]
    /\ UNCHANGED <<server, input>>

Call_convert_code_to_python ==
    /\ input.fn = "convert_code_to_python"
    /\ output = NoCall
    /\ output' = [fn |-> input.fn, returned |-> convert_code_to_python(input.content)]
    /\ UNCHANGED <<server, input>>

\* conversion_service.py line 137, on the conversions of a whole repository
BuildCommitMessage ==
    /\ input.fn = "commit_message"
    /\ output = NoCall
    /\ output' = [fn |-> input.fn,
                  lines |-> commit_message(ConversionsOf(input.tree, input.target_language))]
    /\ UNCHANGED <<server, input>>

NextFunctions ==
    \/ Call_get_target_path
    \/ Call_find_convertible_files
    \/ Call_convert_code_to_python
    \/ BuildCommitMessage

SpecFunctions == InitFunctions /\ [][NextFunctions]_vars

\* --------------------------------------------- properties of the functions
\* suf is a suffix of s
HasSuffix(s, suf) == \E i \in 0..Len(s) : SubSeq(s, i + 1, Len(s)) = suf

\* the last component of a path
Basename(path) ==
    LET I == {i \in 1..Len(path) : path[i] = "/"}
    IN  IF I = {} THEN path
        ELSE SubSeq(path, (CHOOSE i \in I : \A k \in I : i >= k) + 1, Len(path))

\* the supported extensions a language filter lets through
Let_through(source_languages) ==
    {e \in Range(supported_extensions) :
        source_languages \in {None, << >>} \/ e.lang \in Range(source_languages)}

\* the files of repository l whose name ends with an extension of the filter
ExpectedFiles(l, source_languages) ==
    LET hits == {pe \in AllFiles(l, get_contents(l, << >>)) \X Let_through(source_languages) :
                    HasSuffix(Basename(pe[1]), pe[2].ext)}
    IN  {[path |-> pe[1], name |-> Basename(pe[1]), language |-> pe[2].lang] : pe \in hits}

\* C21: find_convertible_files returns exactly the files of the tree, at any
\* depth, whose name ends with a supported extension of a language the filter
\* lets through (every language when there is no filter), each of them once,
\* with the language of the extension that matched.
C21_DiscoveryIsExact ==
    output.fn = "find_convertible_files" =>
        LET found == output.convertible_files
        IN  /\ Range(found) = ExpectedFiles(input.tree, input.source_languages)
            /\ \A i, k \in 1..Len(found) : found[i].path = found[k].path => i = k

C21_Witness ==
    /\ output.fn = "find_convertible_files"
    /\ input.source_languages = <<"shell">>
    /\ \E i \in 1..Len(output.convertible_files) :
          output.convertible_files[i].path = <<"d","/","e","/","c",".","s","h">>

\* the extension expected for a target language
ExpectedTargetExt(target_language) ==
    LET known == [python |-> <<".","p","y">>, javascript |-> <<".","j","s">>,
                  typescript |-> <<".","t","s">>, go |-> <<".","g","o">>,
                  rust |-> <<".","r","s">>, java |-> <<".","j","a","v","a">>]
    IN  IF target_language \in DOMAIN known THEN known[target_language]
        ELSE <<".","p","y">>

\* C22: _get_target_path returns, for every path and target language, the path
\* without the supported extension it ends with followed by the extension of
\* the target language (.py when the language is not in the table), and the
\* path followed by that extension when it ends with no supported extension.
C22_TargetPath ==
    output.fn = "_get_target_path" =>
        LET p == input.original_path
            t == ExpectedTargetExt(input.target_language)
            M == {e \in Range(supported_extensions) : HasSuffix(p, e.ext)}
        IN  IF M = {} THEN output.converted_path = p \o t
            ELSE \E e \in M : output.converted_path = SubSeq(p, 1, Len(p) - Len(e.ext)) \o t

C22_Witness ==
    /\ output.fn = "_get_target_path"
    /\ input.original_path = deploy_stem \o <<".","s","h">>
    /\ input.target_language = "python"
    /\ output.converted_path = deploy_stem \o <<".","p","y">>

\* s from its last element to its first
Reverse(s) == [i \in 1..Len(s) |-> s[Len(s) + 1 - i]]

\* C23: a discovered file carries the language of the longest key of the map
\* that is a suffix of its name, a file whose name ends with no key is not
\* discovered, and listing the map in the opposite order changes nothing.
C23_LongestSuffixDecides ==
    output.fn = "find_convertible_files" =>
        LET found == Range(output.convertible_files)
            keys  == Let_through(input.source_languages)
        IN  /\ \A p \in AllFiles(input.tree, get_contents(input.tree, << >>)) :
                  LET M == {e \in keys : HasSuffix(Basename(p), e.ext)}
                  IN  IF M = {} THEN \A f \in found : f.path # p
                      ELSE \E e \in M :
                             /\ \A x \in M : Len(x.ext) <= Len(e.ext)
                             /\ \A f \in found : f.path = p => f.language = e.lang
                             /\ \E f \in found : f.path = p
            /\ Range(Walk(input.tree, Reverse(wanted_extensions(input.source_languages)),
                          get_contents(input.tree, << >>), << >>)) = found

C23_Witness ==
    /\ output.fn = "find_convertible_files"
    /\ \E i \in 1..Len(output.convertible_files) :
          /\ output.convertible_files[i].name = <<"a",".","c","c">>
          /\ output.convertible_files[i].language = "cpp"
    /\ \A i \in 1..Len(output.convertible_files) :
          output.convertible_files[i].name # <<"a",".","c","c">> \o txt

\* the first fenced block of a response: from the first fence to the next one,
\* a first line that is empty or holds one word, then the body
BlockOf(content) ==
    LET rest    == SubSeq(content, IndexOf(content, << Fence >>) + 1, Len(content))
        between == split_first(rest, << Fence >>)
        tagline == split_first(between, << Newline >>)
    IN  [fenced |-> /\ Contains(content, << Fence >>)
                    /\ Contains(rest, << Fence >>)
                    /\ Contains(between, << Newline >>)
                    /\ tagline \in {<< >>, <<"python">>, <<"x">>},
         body   |-> SubSeq(between, Len(tagline) + 2, Len(between))]

\* C24: convert_code_to_python returns the body of the first fenced block of
\* the response, fences removed, whether the block is tagged python, tagged
\* otherwise or not tagged; a response without any fence is returned whole as
\* the code, with the fixed note.
C24_FirstBlockIsTheCode ==
    output.fn = "convert_code_to_python" =>
        LET content == input.content
            block   == BlockOf(content)
        IN  /\ ~ Contains(content, << Fence >>) =>
                   /\ output.returned.code_part = content
                   /\ output.returned.explanation = selection_note
            /\ block.fenced =>
                   /\ output.returned.code_part = strip(block.body)
                   /\ Fence \notin Range(output.returned.code_part)

\* C25: the commit message has one line per conversion, and the lines of one
\* source language are next to each other.
C25_LinesGroupedByLanguage ==
    output.fn = "commit_message" =>
        LET lines == output.lines
        IN  /\ Len(lines) = Len(ConversionsOf(input.tree, input.target_language))
            /\ \A i, k, m \in 1..Len(lines) :
                  i < k /\ k < m /\ lines[i][2] = lines[m][2] => lines[k][2] = lines[i][2]

\* C30: the path a conversion is written to is never the path it was read
\* from, for every supported source extension and every target language.
C30_NeverOverwritesSource ==
    /\ output.fn = "_get_target_path"
    /\ \E e \in Range(supported_extensions) : HasSuffix(input.original_path, e.ext)
    => output.converted_path # input.original_path

\* ------------------------------------------------------------- credentials
\* user rows of every shape: with or without an installation, with or without a token
UserRows ==
    [github_installation_id : {"", "inst1"}, github_token_encrypted : {"None", "enc1"}]

CredentialErrors ==
    {"User has no GitHub token configured",
     "'User' object has no attribute 'github_installation_id'"}

\* C26: the installation token is asked for first when the user has an
\* installation id, the stored token is used only when that fails or when
\* there is no installation id, and a job for which no credential is resolved
\* ends failed without any operation on the GitHub repository.
C26_CredentialOrder ==
    /\ \A user \in UserRows, installation_ok \in BOOLEAN :
          LET r == resolve_github_token(user, installation_ok)
              installed == user.github_installation_id # ""
              stored    == user.github_token_encrypted # "None"
          IN  /\ installed /\ installation_ok => r.ok /\ r.value = "installation_token"
              /\ r.ok /\ r.value = "stored_token" =>
                     stored /\ (~ installed \/ ~ installation_ok)
              /\ r.ok <=> (installed /\ installation_ok) \/ stored
    /\ \A j \in JobIds :
          LET user == users[jobs[j].user_id]
          IN  /\ task[j].github_token = "installation_token" =>
                     /\ "github_installation_id" \in DOMAIN user
                     /\ user.github_installation_id # ""
              /\ task[j].github_token = "stored_token" => user.github_token_encrypted # "None"
              /\ called[j] # << >> => task[j].err \notin CredentialErrors
              /\ task[j].err \in CredentialErrors =>
                     /\ task[j].pc \in {"except", "done"}
                     /\ called[j] = << >>
                     /\ ~ task[j].discovered /\ ~ task[j].branch_created
                     /\ NoCommitBy(j) /\ NoPullBy(j)
                     /\ task[j].pc = "done" => jobs[j].status = "failed"

\* C26 witness: a job of a user without installation and without token has ended
C26_Witness ==
    \E j \in JobIds :
        /\ users[jobs[j].user_id].github_token_encrypted = "None"
        /\ task[j].pc = "done"
        /\ jobs[j].status = "failed"
        /\ jobs[j].error_message = "User has no GitHub token configured"
        /\ called[j] = << >>

\* C27: two jobs submitted without a target branch never get the same one.
C27_SynthesizedBranchesDiffer ==
    \A i, j \in JobIds :
        /\ i # j
        /\ submitted[i].target_branch = None
        /\ submitted[j].target_branch = None
        => jobs[i].target_branch # jobs[j].target_branch

\* ============================== the GitHub OAuth callback and the webhook
\* What the endpoints meet outside the server.
\* exchange_code_for_token raises, returns a body without access_token, or a token
Exchanges == {"raises", "no_access_token", "gho_token"}
\* get_user_info raises, or returns the login of the GitHub account
Logins == {"gh1", "gh2", "gh3"}
UserInfos == {"raises"} \cup Logins
\* the action, installation.id ("": none) and installation.account.login of an event
EventTypes == {"created", "deleted"}
InstallationIds == {"", "inst1", "inst2"}

\* db.query(User).filter(User.github_username == github_username).first()
find_user(github_username) ==
    LET found == {u \in Users : users[u].github_username = github_username}
    IN  IF found = {} THEN "None" ELSE CHOOSE u \in found : TRUE

\* AuthService.encrypt_github_token
encrypt_github_token(token) ==
    CASE token = "gho_token" -> "enc_gho_token"
      [] OTHER               -> "enc1"

\* AuthService.link_github_installation on the row of a user; oauth_token "None"
\* when it is not given.  The class of the build defines the method twice and
\* the second definition (lines 154-183) is the one bound to the name; the
\* class of the source tree, whose User has no github_installation_id, does
\* not define it, and the call raises AttributeError.
link_github_installation(user, installation_id, oauth_token) ==
    IF "github_installation_id" \notin DOMAIN user
    THEN [ok |-> FALSE, user |-> user]
    ELSE LET linked == [user EXCEPT !.github_installation_id = installation_id]
         IN  [ok |-> TRUE,
              user |-> IF oauth_token # "None"
                       THEN [linked EXCEPT !.github_token_encrypted =
                                                encrypt_github_token(oauth_token)]
                       ELSE linked]

HTTPException(status_code, detail) == [status_code |-> status_code, detail |-> detail]

\* POST /auth/github/callback (main.py lines 331-370): every exception raised
\* in the try block, the HTTPExceptions of lines 343 and 352 included, is
\* caught at line 368 and answered by line 370
github_oauth_callback(exchange, user_info) ==
    LET user     == IF exchange = "gho_token" /\ user_info \in Logins
                    THEN find_user(user_info) ELSE "None"
        linked   == link_github_installation(users[user], "", exchange)
        raised   == \/ exchange # "gho_token"        \* lines 339, 343
                    \/ user_info \notin Logins       \* line 346
                    \/ user = "None"                 \* line 352
                    \/ ~ linked.ok                   \* line 355
        response == IF raised
                    THEN HTTPException(500, "Authentication failed")
                    ELSE [status_code |-> 200, detail |-> "GitHub authentication successful"]
    IN  /\ input' = [fn |-> "github_oauth_callback", exchange |-> exchange,
                     user_info |-> user_info, user |-> user]
        /\ output' = [fn |-> "github_oauth_callback"] @@ response
        /\ users' = IF raised THEN users ELSE [users EXCEPT ![user] = linked.user]
        /\ UNCHANGED <<now, layout, jobs, task, refs, commits, pulls, moves, called, submitted>>

\* POST /webhooks/github (main.py lines 372-405)
github_webhook(event_type, installation_id, username) ==
    LET user   == IF event_type = "created" /\ installation_id # ""
                  THEN find_user(username) ELSE "None"
        linked == link_github_installation(users[user], installation_id, "None")
        failed == user # "None" /\ ~ linked.ok
    IN  /\ input' = [fn |-> "github_webhook", event_type |-> event_type,
                     installation_id |-> installation_id, username |-> username,
                     user |-> user]
        /\ output' = [fn |-> "github_webhook",
                      status |-> IF failed THEN "error" ELSE "ok"]
        /\ users' = IF user # "None" /\ linked.ok
                    THEN [users EXCEPT ![user] = linked.user] ELSE users
        /\ UNCHANGED <<now, layout, jobs, task, refs, commits, pulls, moves, called, submitted>>

\* the users as they registered: nobody has installed the GitHub App yet
Unlinked(table) ==
    [u \in Users |->
        IF "github_installation_id" \in DOMAIN table[u]
        THEN [table[u] EXCEPT !.github_installation_id = ""]
        ELSE table[u]]

InitInstallations ==
    /\ InitServer
    /\ layout = 1
    /\ users \in {Unlinked(UsersTable(TRUE)), Unlinked(UsersTable(FALSE))}
    /\ input = NoCall
    /\ output = NoCall

NextInstallations ==
    \/ \E exchange \in Exchanges, user_info \in UserInfos :
          github_oauth_callback(exchange, user_info)
    \/ \E event_type \in EventTypes, installation_id \in InstallationIds, username \in Logins :
          github_webhook(event_type, installation_id, username)

SpecInstallations == InitInstallations /\ [][NextInstallations]_vars

\* C28: an installation id that a webhook has linked to a user stays non-empty
\* whatever OAuth callbacks and webhooks follow.
C28_InstallationStaysLinked ==
    [][\A u \in Users :
          /\ "github_installation_id" \in DOMAIN users[u]
          /\ users[u].github_installation_id # ""
          => users'[u].github_installation_id # ""]_vars

\* C29: the OAuth callback answers 400 when GitHub returns no access token and
\* 404 "User not found" when no user is registered under the GitHub login,
\* and changes no user record in either case.
C29_ClientErrorsReported ==
    [][input'.fn = "github_oauth_callback" =>
          /\ input'.exchange = "no_access_token" =>
                 output'.status_code = 400 /\ users' = users
          /\ input'.exchange = "gho_token" /\ input'.user_info \in Logins
                 /\ input'.user = "None" =>
                 output'.status_code = 404 /\ users' = users]_vars

====
